---- MODULE Spec2Model ----
(***************************************************************************)
(* Model of c19/text_preprocessing.py: the text normaliser                 *)
(* (preprocess_text), the batch worker with its retry decorator            *)
(* (pre_process_batch_of_articles), the chunker (split_into_chunks) and    *)
(* the driver (pre_process_and_vectorize_texts).                           *)
(*                                                                         *)
(* Strings are sequences of one-character strings.  An optional value      *)
(* (Python None or a value) is a sequence of length 0 or 1.                *)
(***************************************************************************)
EXTENDS Integers, Sequences, FiniteSets, TLC

(***************************************************************************)
(* Bounds of the model.                                                    *)
(***************************************************************************)
\* longest text, in sentences, that SpecText enumerates exhaustively
MaxSentences == 2
\* the source holds between 0 and MaxArticles articles
MaxArticles == 2
\* the driver's batch_size ranges over 1..MaxBatchSize
MaxBatchSize == 2
\* at most MaxRuns consecutive driver calls reuse the store
MaxRuns == 2
\* the texts of SpecSection have up to SampleSize + MaxExtra sentences
MaxExtra == 2
\* SpecChunks splits lists of up to MaxItems items
MaxItems == 8
\* os.cpu_count(): the number of processes of the pool
Processes == 2

(***************************************************************************)
(* Program constants.                                                      *)
(***************************************************************************)
\* @retry(..., tries=5, ...)
Tries == 5
\* @retry(..., delay=2)
Delay == 2
\* temp_list[0:20]
SampleSize == 20

(***************************************************************************)
(* Generic helpers.                                                        *)
(***************************************************************************)
None == <<>>
Some(v) == <<v>>

RECURSIVE Flatten(_)
Flatten(ss) == IF ss = <<>> THEN <<>> ELSE Head(ss) \o Flatten(Tail(ss))

Min(a, b) == IF a < b THEN a ELSE b

\* Python's a[lo:hi] on a 1-based sequence (0-based, half-open bounds)
Slice(s, lo, hi) == SubSeq(s, lo + 1, Min(hi, Len(s)))

\* Python's zip: pairs up to the shorter argument
Zip(a, b) == [i \in 1..Min(Len(a), Len(b)) |-> <<a[i], b[i]>>]

(***************************************************************************)
(* Characters and the NLTK capabilities used by preprocess_text.           *)
(***************************************************************************)
LowerLetters == {"a", "c", "f", "i", "l", "s", "t", "u", "x"}
Digits == {"0", "1", "2", "3", "4", "5", "6", "7", "8", "9"}
Vowels == {"a", "i", "u"}

\* str.lower, per character
LowerChar(c) ==
  CASE c = "I" -> "i"
    [] c = "C" -> "c"
    [] c = "F" -> "f"
    [] OTHER -> c

Lower(s) == [i \in DOMAIN s |-> LowerChar(s[i])]

\* \w of the tokenizer's pattern
IsWordChar(c) == LowerChar(c) \in LowerLetters \/ c \in Digits \/ c = "_"

\* the token that ends with the full stop at position i, without that stop
PeriodToken(s, i) ==
  LET k == CHOOSE k \in 1..i : /\ (k = 1 \/ s[k - 1] = " ")
                               /\ \A m \in k..i : s[m] # " "
  IN SubSeq(s, k, i - 1)

\* Punkt's type ##number##: a digit, then digits and , . -
IsNumberToken(tok) ==
  /\ tok # <<>>
  /\ tok[1] \in Digits
  /\ \A m \in DOMAIN tok : tok[m] \in Digits \cup {",", ".", "-"}

\* Punkt's is_initial: one letter and the full stop
IsInitialToken(tok) == Len(tok) = 1 /\ LowerChar(tok[1]) \in LowerLetters

\* the token after the blank at position i + 1 starts with a lower-case letter
NextStartsLower(s, i) == i + 2 <= Len(s) /\ s[i + 2] \in LowerLetters

\* Punkt's two passes on the full stop at position i, which a blank
\* follows: the first pass marks it as a sentence end (no word of the
\* vocabulary is an abbreviation); the second pass unmarks it when its token
\* is a number or an initial and the next token starts in lower case (the
\* orthographic heuristic says it does not start a sentence).
PeriodBreaks(s, i) ==
  ~((IsNumberToken(PeriodToken(s, i)) \/ IsInitialToken(PeriodToken(s, i)))
     /\ NextStartsLower(s, i))

\* the positions of the full stops that end a sentence before the end of
\* the text
SentenceBreaks(s) ==
  {i \in 1..(Len(s) - 1) : s[i] = "." /\ s[i + 1] = " " /\ PeriodBreaks(s, i)}

\* the last position of every sentence: the breaks, and the end of the text
\* unless only the blank after a break is left
SentenceEnds(s) ==
  SentenceBreaks(s) \cup
    (IF Len(s) > 0 /\ (Len(s) - 1) \notin SentenceBreaks(s) THEN {Len(s)} ELSE {})

\* the k-th smallest member of a set of numbers
Nth(S, k) == CHOOSE e \in S : Cardinality({b \in S : b <= e}) = k

\* the text cut at ends; the blank between two sentences is dropped
SentSplit(s, ends) ==
  [k \in 1..Cardinality(ends) |->
     SubSeq(s, IF k = 1 THEN 1 ELSE Nth(ends, k - 1) + 2, Nth(ends, k))]

\* sent_tokenize (Punkt): the text is cut after each full stop that ends a
\* sentence, the text after the last cut is the last sentence
sent_tokenize(text) == SentSplit(text, SentenceEnds(text))

\* RegexpTokenizer(r"\w+").tokenize: the maximal runs of word characters
RECURSIVE WordRuns(_, _, _)
WordRuns(s, i, cur) ==
  IF i > Len(s)
  THEN IF cur = <<>> THEN <<>> ELSE <<cur>>
  ELSE IF IsWordChar(s[i])
       THEN WordRuns(s, i + 1, Append(cur, s[i]))
       ELSE (IF cur = <<>> THEN <<>> ELSE <<cur>>) \o WordRuns(s, i + 1, <<>>)

tokenize(sentence) == WordRuns(sentence, 1, <<>>)

\* stopwords.words("english"), the members the vocabulary can produce
stop_words_nltk == {<<"i", "t">>, <<"i", "s">>, <<"a">>}

\* SnowballStemmer("english").stem, step 1a for the suffix "s": deleted
\* when the part before it holds a vowel that is not its last letter
\* ("ss" and "us" are kept).
stem(w) ==
  LET n == Len(w) IN
  IF /\ n >= 3
     /\ w[n] = "s"
     /\ w[n - 1] \notin {"s", "u"}
     /\ \E i \in 1..(n - 2) : w[i] \in Vowels
  THEN SubSeq(w, 1, n - 1)
  ELSE w

(***************************************************************************)
(* preprocess_text and its nested helpers.                                 *)
(***************************************************************************)
filter_stopwords(sentence) ==
  LET Keep(w) == w \notin stop_words_nltk IN SelectSeq(sentence, Keep)

do_stemming(sentence) == [i \in DOMAIN sentence |-> stem(sentence[i])]

\* letter_pattern.match(word): the word starts with [a-z]
remove_numeric_words(sentence) ==
  LET Keep(w) == w # <<>> /\ w[1] \in LowerLetters IN SelectSeq(sentence, Keep)

\* lines 67-69: the comprehension drops the sentences that are empty
\* before the one-letter words are removed, and only from `sentences`
FilterEmptyAndShort(sentences) ==
  LET NonEmpty(s) == s # <<>>
      Long(w) == Len(w) > 1
      kept == SelectSeq(sentences, NonEmpty)
  IN [i \in DOMAIN kept |-> SelectSeq(kept[i], Long)]

\* line 57
LowerAll(sentences) == [i \in DOMAIN sentences |-> Lower(sentences[i])]

\* line 59
TokenizeAll(sentences) == [i \in DOMAIN sentences |-> tokenize(sentences[i])]

\* line 61
FilterStopwordsAll(sentences) == [i \in DOMAIN sentences |-> filter_stopwords(sentences[i])]

\* lines 62-64
StemAll(sentences, stem_words) ==
  IF stem_words THEN [i \in DOMAIN sentences |-> do_stemming(sentences[i])] ELSE sentences

\* lines 65-66
RemoveNumericAll(sentences, remove_num) ==
  IF remove_num THEN [i \in DOMAIN sentences |-> remove_numeric_words(sentences[i])]
  ELSE sentences

\* lines 56-70 on the sentences sent_tokenize has returned
NormaliseSentences(sentences_raw, stem_words, remove_num) ==
  <<FilterEmptyAndShort(
      RemoveNumericAll(
        StemAll(FilterStopwordsAll(TokenizeAll(LowerAll(sentences_raw))), stem_words),
        remove_num)),
    sentences_raw>>

\* returns <<sentences, sentences_raw>>
preprocess_text(text, stem_words, remove_num) ==
  NormaliseSentences(sent_tokenize(text), stem_words, remove_num)

(***************************************************************************)
(* The batch worker: pre_process_batch_of_articles, one attempt.           *)
(***************************************************************************)
\* The values the generator's randbelow returns during one shuffle of n
\* items, in call order: the k-th call is randbelow(n - k + 1) and returns
\* any value below its argument.
DrawsFor(n) == {d \in [1..(n - 1) -> 0..(n - 1)] : \A k \in 1..(n - 1) : d[k] <= n - k}

\* x[i], x[j] = x[j], x[i]
Swap(x, i, j) == [k \in 1..Len(x) |-> IF k = i THEN x[j] ELSE IF k = j THEN x[i] ELSE x[k]]

\* one pass of the loop of random.shuffle,
\*   for i in reversed(range(1, len(x))): j = randbelow(i + 1);
\*                                        x[i], x[j] = x[j], x[i]
\* where i is the 1-based index and j the value drawn
ShuffleStep(x, i, j) == Swap(x, i, j + 1)

RECURSIVE ShuffleFrom(_, _, _)
ShuffleFrom(x, i, draws) ==
  IF i < 2 THEN x
  ELSE ShuffleFrom(ShuffleStep(x, i, draws[Len(x) - i + 1]), i - 1, draws)

\* random.shuffle(x) when the generator returns draws
shuffle(x, draws) == ShuffleFrom(x, Len(x), draws)

\* zip(*pairs)
Unzip(pairs) == <<[i \in DOMAIN pairs |-> pairs[i][1]], [i \in DOMAIN pairs |-> pairs[i][2]]>>

\* SampleOf with the slice one pair too long
SampleOf_OneMore(temp_list) == Unzip(Slice(temp_list, 0, SampleSize + 1))

\* line 109: pp_sentences, sentences_raw = zip(*temp_list[0:20])
SampleOf(temp_list) == Unzip(Slice(temp_list, 0, SampleSize))

\* lines 107-109: temp_list = list(zip(..)); shuffle(temp_list);
\* pp_sentences, sentences_raw = zip(*temp_list[0:20])
SampleBody(pp_sentences, sentences_raw, draws) ==
  SampleOf(shuffle(Zip(pp_sentences, sentences_raw), draws))

DigitChars == <<"0", "1", "2", "3", "4", "5", "6", "7", "8", "9">>

\* str(n) of a natural number
RECURSIVE Str(_)
Str(n) == IF n < 10 THEN <<DigitChars[n + 1]>> ELSE Str(n \div 10) \o <<DigitChars[(n % 10) + 1]>>

RECURSIVE JoinQuoted(_)
JoinQuoted(ws) ==
  IF ws = <<>> THEN <<>>
  ELSE <<"\"">> \o Head(ws) \o <<"\"">>
       \o (IF Len(ws) > 1 THEN <<",", " ">> ELSE <<>>) \o JoinQuoted(Tail(ws))

\* json.dumps of a list (or tuple) of strings
JsonDumps(ws) == <<"[">> \o JoinQuoted(ws) \o <<"]">>

\* embedding_model.compute_sentence_vector: None when no word of the
\* sentence is in the model, else a vector (here of one component)
compute_sentence_vector(embedding_model, pp_sentence) ==
  LET hits == Cardinality({i \in DOMAIN pp_sentence : pp_sentence[i] \in embedding_model[1].known})
  IN IF hits = 0 THEN None ELSE Some(<<hits>>)

\* lines 115-126 once compute_sentence_vector has returned v
VectorStep(article_id, section, pp_sentence, raw_sentence, v) ==
  IF v = None THEN [exc |-> "TypeError", rows |-> <<>>]
  ELSE [exc |-> "",
        rows |-> << <<article_id, section, raw_sentence, JsonDumps(pp_sentence),
                      Some(JsonDumps([i \in DOMAIN v[1] |-> Str(v[1][i])]))>> >>]

\* lines 113-128 for one (pp_sentence, raw_sentence) pair: the rows appended
\* and the exception raised, "" when none.  The vector is computed outside
\* the try block, so the TypeError of map(str, None) is not caught.
SentenceStep(article_id, section, pp_sentence, raw_sentence, embedding_model) ==
  IF pp_sentence = <<>> THEN [exc |-> "", rows |-> <<>>]
  ELSE IF embedding_model = None
       THEN [exc |-> "",
             rows |-> << <<article_id, section, raw_sentence, JsonDumps(pp_sentence), None>> >>]
       ELSE VectorStep(article_id, section, pp_sentence, raw_sentence,
                       compute_sentence_vector(embedding_model, pp_sentence))

\* lines 103 and 106: only a body with at least one sentence is sampled
IsSampled(section, pre) == Len(pre[1]) > 0 /\ section = "body"

\* lines 103-110 on pre, what preprocess_text has returned
SelectFrom(section, pre, draws) ==
  IF IsSampled(section, pre) THEN SampleBody(pre[1], pre[2], draws) ELSE pre

\* lines 101-110 for one section: the (pp_sentences, sentences_raw) that the
\* loop of line 111 zips
SectionSelect(section, data, stem_words, remove_num, draws) ==
  SelectFrom(section, preprocess_text(data, stem_words, remove_num), draws)

\* lines 111-128: one step per pair of zip(pp_sentences, sentences_raw)
PairSteps(article_id, section, pairs, embedding_model) ==
  [i \in DOMAIN pairs |->
     SentenceStep(article_id, section, pairs[i][1], pairs[i][2], embedding_model)]

\* lines 103 and 111: the pairs of a section that has sentences
SelectedPairs(sel) == IF Len(sel[1]) > 0 THEN Zip(sel[1], sel[2]) ELSE <<>>

\* lines 100-128 for one section of one article
SectionSteps(article_id, section, data, embedding_model, stem_words, remove_num, draws) ==
  IF data = None THEN <<>>
  ELSE PairSteps(article_id, section,
                 SelectedPairs(SectionSelect(section, data[1], stem_words, remove_num, draws)),
                 embedding_model)

Sections == <<"title", "abstract", "body">>

\* lines 92-128 for one article; draws are the values the generator returns
\* while its body is shuffled
ArticleSteps(article, embedding_model, stem_words, remove_num, draws) ==
  Flatten([k \in 1..3 |->
     SectionSteps(article[1], Sections[k], article[k + 1], embedding_model,
                  stem_words, remove_num, draws)])

\* the exception that ends a run of steps, "" when none does
RECURSIVE FirstExc(_)
FirstExc(steps) ==
  IF steps = <<>> THEN ""
  ELSE IF Head(steps).exc # "" THEN Head(steps).exc ELSE FirstExc(Tail(steps))

\* the rows of every step
StepRows(steps) == Flatten([i \in DOMAIN steps |-> steps[i].rows])

\* the steps in which compute_sentence_vector is called
VectorCalls(steps) == SelectSeq(steps, LAMBDA st : st.exc # "" \/ st.rows # <<>>)

\* line 129, or the exception that ends the call: the lock error of the
\* first call of the vectorizer when the storage is locked, else the first
\* exception of a step
AttemptResult(steps, has_model, locked) ==
  IF locked /\ has_model /\ VectorCalls(steps) # <<>>
  THEN [exc |-> "OperationalError", rows |-> <<>>]
  ELSE IF FirstExc(steps) # ""
  THEN [exc |-> FirstExc(steps), rows |-> <<>>]
  ELSE [exc |-> "", rows |-> StepRows(steps)]

\* lines 90-128: the steps of every article of the batch
BatchSteps(batch, embedding_model, stem_words, remove_num, draws) ==
  Flatten([a \in DOMAIN batch |->
     ArticleSteps(batch[a], embedding_model, stem_words, remove_num, draws[a])])

\* the length of the list line 108 shuffles for a body, 0 when it is not reached
ShuffledPairs(pre) == IF IsSampled("body", pre) THEN Min(Len(pre[1]), Len(pre[2])) ELSE 0

BodyPairs(article, stem_words, remove_num) ==
  IF article[4] = None THEN 0
  ELSE ShuffledPairs(preprocess_text(article[4][1], stem_words, remove_num))

RECURSIVE DrawSeqs(_)
DrawSeqs(sizes) ==
  IF sizes = <<>> THEN {<<>>}
  ELSE {<<d>> \o rest : d \in DrawsFor(Head(sizes)), rest \in DrawSeqs(Tail(sizes))}

\* everything the generator can return during one call on args: per article
\* of the batch, the draws of the shuffle of its body
AttemptDraws(args) ==
  DrawSeqs([a \in DOMAIN args[1] |-> BodyPairs(args[1][a], args[3], args[4])])

\* One call of the undecorated function on args = (batch, embedding_model,
\* stem_words, remove_num).  draws are the values the random generator
\* returns; locked says that the storage the vectorizer reads is locked, so
\* that its first call raises sqlite3.OperationalError.
BatchAttempt(args, draws, locked) ==
  AttemptResult(BatchSteps(args[1], args[2], args[3], args[4], draws), args[2] # None, locked)

(***************************************************************************)
(* split_into_chunks.                                                      *)
(***************************************************************************)
\* range(0, total_size, chunks_size) as a sequence
RECURSIVE RangeFrom(_, _, _)
RangeFrom(lo, hi, step) == IF lo >= hi THEN <<>> ELSE <<lo>> \o RangeFrom(lo + step, hi, step)

\* split_into_chunks with every slice one item short
split_into_chunks_Short(iterable, chunks_size) ==
  LET total_size == Len(iterable)
      starts == RangeFrom(0, total_size, chunks_size)
  IN [b \in DOMAIN starts |->
        Slice(iterable, starts[b], Min(starts[b] + chunks_size - 1, total_size))]

split_into_chunks(iterable, chunks_size) ==
  LET total_size == Len(iterable)
      starts == RangeFrom(0, total_size, chunks_size)
  IN [b \in DOMAIN starts |->
        Slice(iterable, starts[b], Min(starts[b] + chunks_size, total_size))]

(***************************************************************************)
(* Inputs: words, sentences, texts, articles, embedding models.            *)
(***************************************************************************)
W_It == <<"I", "t">>
W_is == <<"i", "s">>
W_x == <<"x">>
W_19 == <<"1", "9">>
W_Cats == <<"C", "a", "t", "s">>
W_flu == <<"f", "l", "u">>

RECURSIVE JoinWith(_, _)
JoinWith(parts, sep) ==
  IF parts = <<>> THEN <<>>
  ELSE IF Len(parts) = 1 THEN Head(parts)
  ELSE Head(parts) \o sep \o JoinWith(Tail(parts), sep)

\* a sentence as written: its words separated by blanks, then a full stop
SentenceOf(words) == JoinWith(words, <<" ">>) \o <<".">>

\* a text as written: its sentences separated by blanks
TextOf(sentences) == JoinWith(sentences, <<" ">>)

SentenceCatalogue ==
  << SentenceOf(<<W_flu, W_Cats>>), SentenceOf(<<W_It, W_is>>), SentenceOf(<<W_x>>),
     SentenceOf(<<W_19>>), SentenceOf(<<W_Cats>>), SentenceOf(<<W_flu, W_19>>),
     SentenceOf(<<W_It, W_flu>>), SentenceOf(<<W_x, W_Cats>>) >>

SeqsUpTo(S, n) == UNION {[1..k -> S] : k \in 0..n}

\* every text of at most MaxSentences catalogue sentences
Texts == {TextOf(ss) : ss \in SeqsUpTo({SentenceCatalogue[i] : i \in DOMAIN SentenceCatalogue}, MaxSentences)}

\* the text of n sentences that walks the catalogue from `from` in steps of `step`
PatternText(n, from, step) ==
  TextOf([i \in 1..n |->
     SentenceCatalogue[((from + (i - 1) * step) % Len(SentenceCatalogue)) + 1]])

ArticleId(i) == <<"a">> \o Str(i)

\* the i-th article of the source: (id, title, abstract, body)
ArticleOf(i) ==
  CASE i % 3 = 1 -> <<ArticleId(i), Some(PatternText(1, 0, 1)), None, Some(PatternText(3, 1, 7))>>
    [] i % 3 = 2 -> <<ArticleId(i), Some(PatternText(1, 5, 1)), Some(PatternText(2, 2, 4)), None>>
    [] OTHER -> <<ArticleId(i), None, Some(PatternText(1, 1, 1)), Some(PatternText(2, 4, 1))>>

\* the embedding_model argument: None, or a model that knows one word only
EmbeddingModels == {None, Some([known |-> {<<"f", "l", "u">>}])}

(***************************************************************************)
(* State.                                                                  *)
(***************************************************************************)
VARIABLES
  db_exists,          \* os.path.isfile(db_path)
  db_articles,        \* the rows get_all_articles_data returns
  sentences,          \* the rows of the table "sentences"
  first_launch,       \* arguments of the current driver call
  embedding_model,
  stem_words,
  remove_num,
  batch_size,
  pc,                 \* where the driver is: idle, pool, insert, returned, raised
  err,                \* the exception the driver call raised, "" when none
  arguments,          \* line 176: one (batch, model, stem, remove_num) per chunk
  task,               \* per chunk, its pool task: queued, running or done, and
                      \* the locals of the retry loop around its call
  store_locked,       \* the storage the vectorizer reads is locked by another user
  outqueue,           \* results the pool has produced and the driver has not read
  batches_to_insert,  \* line 186: the results read so far, in arrival order
  arrival,            \* the chunk of each result read so far, in arrival order
  next_insert,        \* position of the loop of line 201
  inserted_sentences, \* line 200
  runs,               \* consecutive driver calls with first_launch False so far
  loads,              \* calls of get_all_articles_data made so far
  writes,             \* the list_to_insert of every call of insert_rows so far
  call_args,          \* arguments of the function applied by SpecText, SpecSection, SpecChunks
  call_frame,         \* the locals of that call while it runs, None outside
  call_ret            \* its return value, None before it returns

driver_vars == <<db_exists, db_articles, sentences, first_launch, embedding_model, stem_words,
                 remove_num, batch_size, pc, err, arguments, task, store_locked, outqueue,
                 batches_to_insert, arrival, next_insert, inserted_sentences, runs, loads,
                 writes>>
call_vars == <<call_args, call_frame, call_ret>>
vars == <<driver_vars, call_vars>>

\* retry's backoff, left at its default: the delay is multiplied by 1
Backoff == 1

\* a pool task before a worker process takes it; tries and delay are the
\* _tries and _delay of the decorator, log the outcome of every attempt
\* made, sleeps the delays slept between them
QueuedTask ==
  [state |-> "queued", starts |-> 0, tries |-> Tries, delay |-> Delay, log |-> <<>>,
   sleeps |-> <<>>]

DriverIdle ==
  /\ first_launch = FALSE
  /\ embedding_model = None
  /\ stem_words = FALSE
  /\ remove_num = FALSE
  /\ batch_size = 1
  /\ pc = "idle"
  /\ err = ""
  /\ arguments = <<>>
  /\ task = <<>>
  /\ store_locked = FALSE
  /\ outqueue = <<>>
  /\ batches_to_insert = <<>>
  /\ arrival = <<>>
  /\ next_insert = 1
  /\ inserted_sentences = 0
  /\ runs = 0
  /\ loads = 0
  /\ writes = <<>>

\* a row an earlier run has left in the table "sentences"
PriorRow == <<ArticleId(0), "title", SentenceOf(<<W_flu>>), JsonDumps(<<Lower(W_flu)>>), None>>

\* the store before the first driver call: missing, or holding the first n
\* articles of the source and a table "sentences" that is empty or filled
Init ==
  /\ db_exists \in BOOLEAN
  /\ \E n \in 0..MaxArticles : db_articles = IF db_exists THEN [i \in 1..n |-> ArticleOf(i)] ELSE <<>>
  /\ sentences \in IF db_exists THEN {<<>>, <<PriorRow>>} ELSE {<<>>}
  /\ DriverIdle
  /\ call_args = None
  /\ call_frame = None
  /\ call_ret = None

(***************************************************************************)
(* The driver: pre_process_and_vectorize_texts.                            *)
(***************************************************************************)
\* IsFreshRun that ignores the flag
IsFreshRun_Always(fl) == TRUE

\* line 166: the branch that processes the articles is the else branch
IsFreshRun(fl) == fl # FALSE

\* c19.database_utilities.get_all_articles_data: the article rows of the
\* store; sqlite3.OperationalError when the store has no such table
get_all_articles_data(exists, articles) ==
  IF exists THEN [exc |-> "", rows |-> articles] ELSE [exc |-> "OperationalError", rows |-> <<>>]

\* c19.database_utilities.insert_rows: appends every row to the table
insert_rows(table, list_to_insert) == table \o list_to_insert

ResetRun ==
  /\ arguments' = <<>>
  /\ task' = <<>>
  /\ outqueue' = <<>>
  /\ batches_to_insert' = <<>>
  /\ arrival' = <<>>
  /\ next_insert' = 1
  /\ inserted_sentences' = 0

CanCall == pc \in {"idle", "returned", "raised"}

\* lines 166-168: first_launch is False; the store is used as it is (the
\* other arguments are not read on this branch and are left as they were)
ReuseRun(fl) ==
  /\ CanCall
  /\ runs < MaxRuns
  /\ ~IsFreshRun(fl)
  /\ runs' = runs + 1
  /\ first_launch' = fl
  /\ UNCHANGED <<embedding_model, stem_words, remove_num, batch_size>>
  /\ ResetRun
  /\ IF db_exists
     THEN pc' = "returned" /\ err' = ""
     ELSE pc' = "raised" /\ err' = "AssertionError"
  /\ UNCHANGED <<db_exists, db_articles, sentences, store_locked, loads, writes, call_vars>>

\* lines 170-185: load the articles, chunk them, build the arguments, print
\* the sizes (len(batches[0]) raises IndexError when there is no batch) and
\* create the pool.  A behaviour follows the store through one such run; the
\* store that earlier runs have filled is one of the stores of Init.
FreshRun(fl, em, st, rn, bs) ==
  /\ CanCall
  /\ loads = 0
  /\ IsFreshRun(fl)
  /\ runs' = 0
  /\ first_launch' = fl
  /\ embedding_model' = em
  /\ stem_words' = st
  /\ remove_num' = rn
  /\ batch_size' = bs
  /\ loads' = loads + 1
  /\ LET got == get_all_articles_data(db_exists, db_articles)
         batches == split_into_chunks(got.rows, bs)
     IN IF got.exc # ""
        THEN ResetRun /\ pc' = "raised" /\ err' = got.exc
        ELSE IF batches = <<>>
        THEN ResetRun /\ pc' = "raised" /\ err' = "IndexError"
        ELSE /\ arguments' = [b \in DOMAIN batches |-> <<batches[b], em, st, rn>>]
             /\ task' = [b \in DOMAIN batches |-> QueuedTask]
             /\ outqueue' = <<>>
             /\ batches_to_insert' = <<>>
             /\ arrival' = <<>>
             /\ next_insert' = 1
             /\ inserted_sentences' = 0
             /\ pc' = "pool"
             /\ err' = ""
  /\ UNCHANGED <<db_exists, db_articles, sentences, store_locked, writes, call_vars>>

(***************************************************************************)
(* The retry decorator and the pool (imap_unordered).                      *)
(***************************************************************************)
\* RetryCatches of a decorator that retries on every exception
RetryCatches_Any(exc) == TRUE

\* @retry(sqlite3.OperationalError, ...): the exceptions that are retried
RetryCatches(exc) == exc = "OperationalError"

\* The decorator's loop around the function:
\*   _tries, _delay = tries, delay
\*   while _tries:
\*     try: return f()
\*     except exceptions: _tries -= 1; if not _tries: raise
\*                        time.sleep(_delay); _delay *= backoff
\* RetryStep is one pass of it on the task t once the call of f has returned
\* or raised (r): the task is done when f returned, when the exception is
\* not one of `exceptions` or when no try is left; else it sleeps and goes
\* round again.
RetryStep(t, r) ==
  IF r.exc = ""
  THEN [t EXCEPT !.state = "done", !.log = Append(@, "ok")]
  ELSE IF ~RetryCatches(r.exc)
  THEN [t EXCEPT !.state = "done", !.log = Append(@, r.exc)]
  ELSE IF t.tries - 1 = 0
  THEN [t EXCEPT !.state = "done", !.tries = @ - 1, !.log = Append(@, r.exc)]
  ELSE [t EXCEPT !.tries = @ - 1, !.log = Append(@, r.exc),
                 !.sleeps = Append(@, t.delay), !.delay = @ * Backoff]

\* the entry of the result queue for chunk c when its task has ended as t
\* with the last call of f having returned or raised r
TaskResult(c, t, r) ==
  [chunk |-> c, exc |-> r.exc, rows |-> r.rows, log |-> t.log, sleeps |-> t.sleeps]

\* the result queue after the pass of the retry loop that left the task as t
PutResult(queue, c, t, r) ==
  IF t.state = "done" THEN Append(queue, TaskResult(c, t, r)) ELSE queue

Running == {c \in DOMAIN task : task[c].state = "running"}

\* a free pool process takes the next task of the queue
Dispatch(c) ==
  /\ pc = "pool"
  /\ c \in DOMAIN task
  /\ task[c].state = "queued"
  /\ \A d \in 1..(c - 1) : task[d].state # "queued"
  /\ Cardinality(Running) < Processes
  /\ task' = [task EXCEPT ![c] = [@ EXCEPT !.state = "running", !.starts = @ + 1]]
  /\ UNCHANGED <<db_exists, db_articles, sentences, first_launch, embedding_model, stem_words,
                 remove_num, batch_size, pc, err, arguments, store_locked, outqueue, batches_to_insert,
                 arrival, next_insert, inserted_sentences, runs, loads, writes, call_vars>>

\* the task of chunk c after one pass of the retry loop, and the result queue
AttemptEnds(c, t, r) ==
  /\ task' = [task EXCEPT ![c] = t]
  /\ outqueue' = PutResult(outqueue, c, t, r)

\* One pass of the retry loop in the process that runs the task of chunk c:
\* pre_process_batch_of_articles is called on the task's arguments (lines
\* 84-129); its rows or its exception go on the pool's result queue, or the
\* process sleeps before the next attempt, during which the other processes
\* and the driver go on.
Attempt(c) ==
  /\ pc = "pool"
  /\ c \in DOMAIN task
  /\ task[c].state = "running"
  /\ \E draws \in AttemptDraws(arguments[c]) :
       AttemptEnds(c, RetryStep(task[c], BatchAttempt(arguments[c], draws, store_locked)),
                   BatchAttempt(arguments[c], draws, store_locked))
  /\ UNCHANGED <<db_exists, db_articles, sentences, first_launch, embedding_model, stem_words,
                 remove_num, batch_size, pc, err, arguments, store_locked, batches_to_insert,
                 arrival, next_insert, inserted_sentences, runs, loads, writes, call_vars>>

\* Another user of the storage takes or releases its lock.  Only the
\* vectorizer of a running worker reads that storage, so the lock is followed
\* while there is one.
LockChange ==
  /\ pc = "pool"
  /\ embedding_model # None
  /\ Running # {}
  /\ store_locked' = ~store_locked
  /\ UNCHANGED <<db_exists, db_articles, sentences, first_launch, embedding_model, stem_words,
                 remove_num, batch_size, pc, err, arguments, task, outqueue, batches_to_insert,
                 arrival, next_insert, inserted_sentences, runs, loads, writes, call_vars>>

\* CollectDone of a driver that starts inserting at the first result
CollectDone_First(collected, total) == Len(collected) >= 1

\* list(imap_unordered(...)) has read every result
CollectDone(collected, total) == Len(collected) = total

\* lines 186-196: the driver reads the next result in arrival order; a
\* task's exception is raised in the driver; after the last result the
\* driver goes on to the insertion loop
Collect ==
  /\ pc = "pool"
  /\ outqueue # <<>>
  /\ LET r == Head(outqueue)
         collected == Append(batches_to_insert, r.rows)
     IN IF r.exc # ""
        THEN pc' = "raised" /\ err' = r.exc /\ UNCHANGED <<batches_to_insert, arrival>>
        ELSE /\ batches_to_insert' = collected
             /\ arrival' = Append(arrival, r.chunk)
             /\ pc' = IF CollectDone(collected, Len(arguments)) THEN "insert" ELSE "pool"
             /\ UNCHANGED err
  /\ outqueue' = Tail(outqueue)
  /\ UNCHANGED <<db_exists, db_articles, sentences, first_launch, embedding_model, stem_words,
                 remove_num, batch_size, arguments, task, store_locked, next_insert,
                 inserted_sentences, runs, loads, writes, call_vars>>

\* Inserted that counts the batch, not its rows
Inserted_One(article_sentences) == 1

\* line 207: what one pass of the loop adds to the count
Inserted(article_sentences) == Len(article_sentences)

\* lines 201-207: one pass of the insertion loop
Insert ==
  /\ pc = "insert"
  /\ next_insert <= Len(batches_to_insert)
  /\ LET article_sentences == batches_to_insert[next_insert]
     IN /\ sentences' = insert_rows(sentences, article_sentences)
        /\ writes' = Append(writes, article_sentences)
        /\ inserted_sentences' = inserted_sentences + Inserted(article_sentences)
  /\ next_insert' = next_insert + 1
  /\ UNCHANGED <<db_exists, db_articles, first_launch, embedding_model, stem_words,
                 remove_num, batch_size, pc, err, arguments, task, store_locked, outqueue,
                 batches_to_insert, arrival, runs, loads, call_vars>>

\* lines 208-212: the loop is over; print the summary and return
Summary ==
  /\ pc = "insert"
  /\ next_insert > Len(batches_to_insert)
  /\ pc' = "returned"
  /\ UNCHANGED <<db_exists, db_articles, sentences, first_launch, embedding_model, stem_words,
                 remove_num, batch_size, err, arguments, task, store_locked, outqueue,
                 batches_to_insert, arrival, next_insert, inserted_sentences, runs, loads,
                 writes, call_vars>>

Next ==
  \/ \E fl \in BOOLEAN : ReuseRun(fl)
  \/ \E fl \in BOOLEAN, em \in EmbeddingModels, st \in BOOLEAN, rn \in BOOLEAN, bs \in 1..MaxBatchSize :
       FreshRun(fl, em, st, rn, bs)
  \/ \E c \in 1..MaxArticles : Dispatch(c)
  \/ \E c \in 1..MaxArticles : Attempt(c)
  \/ LockChange
  \/ Collect
  \/ Insert
  \/ Summary

Spec == Init /\ [][Next]_vars

(***************************************************************************)
(* Specifications that apply one function to bounded inputs.               *)
(***************************************************************************)
NoDriver ==
  /\ db_exists = FALSE
  /\ db_articles = <<>>
  /\ sentences = <<>>
  /\ DriverIdle
  /\ call_frame = None

\* preprocess_text(text, stem_words, remove_num)
InitText ==
  /\ NoDriver
  /\ call_args \in {<<text, st, rn>> : text \in Texts, st \in BOOLEAN, rn \in BOOLEAN}
  /\ call_ret = None

CallPreprocessText ==
  /\ call_ret = None
  /\ call_ret' = Some(preprocess_text(call_args[1], call_args[2], call_args[3]))
  /\ UNCHANGED <<driver_vars, call_args, call_frame>>

SpecText == InitText /\ [][CallPreprocessText]_vars

\* the sentence every long text repeats
PlainSentence == SentenceOf(<<W_Cats>>)

\* The i-th sentence of the long text of pattern p.  Pattern 0 repeats the
\* plain sentence; the others start with "x Cats." and patterns 2 and 3 go
\* on with "x." (its tokens are all dropped, the sentence stays) and with
\* "It is." (the sentence is dropped from the tokens only).
LongSentence(i, p) ==
  IF p >= 1 /\ i = 1 THEN SentenceOf(<<W_x, W_Cats>>)
  ELSE IF p = 2 /\ i = 2 THEN SentenceOf(<<W_x>>)
  ELSE IF p = 3 /\ i = 2 THEN SentenceOf(<<W_It, W_is>>)
  ELSE PlainSentence

LongText(n, p) == TextOf([i \in 1..n |-> LongSentence(i, p)])

Patterns == 0..3

\* lines 100-128 applied to one section text of an article, without a
\* vectorizer: call_args = (section, data, stem_words, remove_num)
InitSection ==
  /\ NoDriver
  /\ call_args \in {<<Sections[k], LongText(n, p), st, rn>> :
                      k \in 1..3, n \in 0..(SampleSize + MaxExtra), p \in Patterns,
                      st \in BOOLEAN, rn \in BOOLEAN}
  /\ call_ret = None

\* list(zip(pp_sentences, sentences_raw)) of what preprocess_text returned
ZipPair(pre) == Zip(pre[1], pre[2])

\* the locals after lines 101-107: pre is what preprocess_text returned,
\* temp_list the list line 107 builds, i the index the loop of shuffle
\* starts at (0 when line 108 is not reached)
SectionFrame(section, pre) ==
  [pre |-> pre,
   temp_list |-> IF IsSampled(section, pre) THEN ZipPair(pre) ELSE <<>>,
   i |-> IF IsSampled(section, pre) THEN Len(ZipPair(pre)) ELSE 0]

\* lines 101-107
EnterSection ==
  /\ call_frame = None
  /\ call_ret = None
  /\ call_frame' = Some(SectionFrame(call_args[1],
                                     preprocess_text(call_args[2], call_args[3], call_args[4])))
  /\ UNCHANGED <<driver_vars, call_args, call_ret>>

\* line 108: one pass of the loop of random.shuffle, j being the value the
\* generator returns
ShuffleLoop ==
  /\ call_frame # None
  /\ call_ret = None
  /\ call_frame[1].i >= 2
  /\ \E j \in 0..(call_frame[1].i - 1) :
       call_frame' = Some([call_frame[1] EXCEPT
                             !.temp_list = ShuffleStep(@, call_frame[1].i, j),
                             !.i = @ - 1])
  /\ UNCHANGED <<driver_vars, call_args, call_ret>>

\* what the loop of line 111 zips once the shuffle, if any, is over
FrameSelect(section, frame) ==
  IF IsSampled(section, frame.pre) THEN SampleOf(frame.temp_list) ELSE frame.pre

\* pairs is list(zip(pp_sentences, sentences_raw)) of what preprocess_text
\* returned, carried the pairs the loop of line 111 goes through, rows the
\* rows appended
SectionReturn(section, frame, sel) ==
  [pairs |-> ZipPair(frame.pre),
   carried |-> SelectedPairs(sel),
   rows |-> StepRows(PairSteps(ArticleId(1), section, SelectedPairs(sel), None))]

\* lines 109-128
LeaveSection ==
  /\ call_frame # None
  /\ call_ret = None
  /\ call_frame[1].i < 2
  /\ call_ret' = Some(SectionReturn(call_args[1], call_frame[1],
                                    FrameSelect(call_args[1], call_frame[1])))
  /\ UNCHANGED <<driver_vars, call_args, call_frame>>

SpecSection == InitSection /\ [][EnterSection \/ ShuffleLoop \/ LeaveSection]_vars

\* split_into_chunks(iterable, chunks_size)
InitChunks ==
  /\ NoDriver
  /\ call_args \in {<<[i \in 1..n |-> ArticleId(i)], c>> : n \in 0..MaxItems, c \in 1..(MaxItems + 1)}
  /\ call_ret = None

CallSplitIntoChunks ==
  /\ call_ret = None
  /\ call_ret' = Some(split_into_chunks(call_args[1], call_args[2]))
  /\ UNCHANGED <<driver_vars, call_args, call_frame>>

SpecChunks == InitChunks /\ [][CallSplitIntoChunks]_vars

(***************************************************************************)
(* Properties.                                                             *)
(***************************************************************************)
Count(s, v) == Cardinality({i \in DOMAIN s : s[i] = v})
Range(s) == {s[i] : i \in DOMAIN s}
SubBag(a, b) == \A v \in Range(a) : Count(a, v) <= Count(b, v)
SameBag(a, b) == SubBag(a, b) /\ SubBag(b, a)

\* steps 2-7 of the normaliser applied to one raw sentence
CleanTokens(raw, stemmed, letters_only) ==
  LET t1 == filter_stopwords(tokenize(Lower(raw)))
      t2 == IF stemmed THEN do_stemming(t1) ELSE t1
      t3 == IF letters_only THEN remove_numeric_words(t2) ELSE t2
  IN SelectSeq(t3, LAMBDA w : Len(w) > 1)

\* C1: preprocess_text returns two sequences of equal length, and
\* normalized[i] is the cleaned token sequence of raw[i]
C1_Aligned ==
  call_ret # None =>
    LET normalized == call_ret[1][1]
        raw == call_ret[1][2]
    IN /\ Len(normalized) = Len(raw)
       /\ \A i \in DOMAIN normalized :
            normalized[i] = CleanTokens(raw[i], call_args[2], call_args[3])

\* the (article_id, section, raw_sentence, tokens) of every row
RowKeys(rows) == [i \in DOMAIN rows |-> SubSeq(rows[i], 1, 4)]

\* the rows a vectorizer-free attempt returns for the sentences of which the
\* model knows a word
EmbeddableRows(args) ==
  LET plain == BatchAttempt(<<args[1], None, args[3], args[4]>>,
                            CHOOSE d \in AttemptDraws(args) : TRUE, FALSE).rows
  IN SelectSeq(plain, LAMBDA row : \E w \in args[2][1].known :
                 \E i \in 1..Len(row[4]) :
                    i + Len(w) + 1 <= Len(row[4])
                    /\ SubSeq(row[4], i, i + Len(w) + 1) = <<"\"">> \o w \o <<"\"">>)

\* C2: with a vectorizer, a call of the worker that meets no storage lock
\* does not fail and is not retried when an embedding cannot be computed:
\* it returns the rows of every other sentence of the chunk
C2_FailedEmbeddingSkipsSentence ==
  \A i \in DOMAIN outqueue :
    LET e == outqueue[i] IN
    (embedding_model # None /\ "OperationalError" \notin Range(e.log)) =>
      /\ e.exc = ""
      /\ Len(e.log) = 1
      /\ SameBag(RowKeys(e.rows), RowKeys(EmbeddableRows(arguments[e.chunk])))

\* C3: the decorated worker is attempted at most 5 times, every attempt but
\* the last failed with the lock error and was followed by the same delay,
\* a success returns that attempt's rows, the lock error surfaces only from
\* the fifth attempt, any other exception surfaces from the attempt that
\* raised it
C3_RetryOnLockOnly ==
  /\ \A c \in DOMAIN task :
       (task[c].state = "running") =>
         /\ Len(task[c].log) <= 4
         /\ \A k \in DOMAIN task[c].log : task[c].log[k] = "OperationalError"
         /\ task[c].sleeps = [k \in DOMAIN task[c].log |-> 2]
  /\ \A i \in DOMAIN outqueue :
       LET e == outqueue[i]
           n == Len(e.log)
       IN /\ n \in 1..5
          /\ \A k \in 1..(n - 1) : e.log[k] = "OperationalError"
          /\ e.sleeps = [k \in 1..(n - 1) |-> 2]
          /\ e.exc = (IF e.log[n] = "ok" THEN "" ELSE e.log[n])
          /\ e.exc = "OperationalError" => n = 5
          /\ e.exc = "" =>
               \E draws \in AttemptDraws(arguments[e.chunk]) :
                  e.rows = BatchAttempt(arguments[e.chunk], draws, FALSE).rows
          /\ e.exc # "" => e.rows = <<>>

\* C3 witness: the result queue holds a call that succeeded on a later
\* attempt and a call whose fifth attempt failed with the lock error
C3_Witness ==
  /\ \E i \in DOMAIN outqueue :
       outqueue[i].exc = "" /\ Len(outqueue[i].log) > 1 /\ outqueue[i].rows # <<>>
  /\ \E i \in DOMAIN outqueue :
       outqueue[i].exc = "OperationalError" /\ Len(outqueue[i].log) = 5

\* a step that is a call of the driver
DriverCalled == pc \in {"idle", "returned", "raised"} /\ (runs' # runs \/ loads' # loads)

\* C4: a driver call with first_launch False on an existing store loads no
\* articles, creates no task, calls the writer not at all and leaves the
\* table as it is, however many such calls came before
C4_ReuseIsNoOp ==
  [][(DriverCalled /\ first_launch' = FALSE /\ db_exists) =>
       /\ loads' = loads
       /\ task' = <<>> /\ arguments' = <<>>
       /\ writes' = writes
       /\ sentences' = sentences
       /\ pc' = "returned"]_vars

\* C4 witness: a second consecutive reuse call has returned on a store that
\* a fresh run had filled
C4_Witness ==
  /\ runs = 2 /\ first_launch = FALSE /\ pc = "returned"
  /\ loads = 1 /\ Len(sentences) > 1

\* C5: for a body of k pairs, the pairs carried forward are the k pairs
\* when k <= 20, and 20 of them, none taken twice, when k > 20; a row is
\* appended for each carried pair that has tokens
C5_SampleBody ==
  (call_ret # None /\ call_args[1] = "body") =>
    LET r == call_ret[1]
        k == Len(r.pairs)
        kept == SelectSeq(r.carried, LAMBDA pr : pr[1] # <<>>)
    IN /\ k <= 20 => SameBag(r.carried, r.pairs)
       /\ k > 20 => Len(r.carried) = 20 /\ SubBag(r.carried, r.pairs)
       /\ [i \in DOMAIN r.rows |-> <<r.rows[i][4], r.rows[i][3]>>]
            = [i \in DOMAIN kept |-> <<JsonDumps(kept[i][1]), kept[i][2]>>]

\* C5 witness: a body of more than 20 pairs was cut to 20 shuffled pairs and
\* gave 20 rows
C5_Witness ==
  /\ call_ret # None /\ call_args[1] = "body"
  /\ Len(call_ret[1].pairs) = SampleSize + MaxExtra
  /\ Len(call_ret[1].carried) = SampleSize
  /\ call_ret[1].carried # SubSeq(call_ret[1].pairs, 1, SampleSize)
  /\ Len(call_ret[1].rows) = SampleSize

\* C6: the chunks concatenate to the sequence, there are ceil(N/C) of
\* them, none is empty and all but the last hold C items
C6_Chunks ==
  call_ret # None =>
    LET chunks == call_ret[1]
        N == Len(call_args[1])
        C == call_args[2]
    IN /\ Flatten(chunks) = call_args[1]
       /\ Len(chunks) = (N + C - 1) \div C
       /\ \A b \in DOMAIN chunks :
            /\ chunks[b] # <<>>
            /\ Len(chunks[b]) <= C
            /\ b < Len(chunks) => Len(chunks[b]) = C

\* C6 witness: five items in chunks of two, the last chunk holding one
C6_Witness ==
  /\ call_ret # None
  /\ Len(call_args[1]) = 5 /\ call_args[2] = 2
  /\ Len(call_ret[1]) = 3 /\ Len(call_ret[1][3]) = 1

\* the driver is in a fresh run that has not raised
InFreshRun == first_launch = TRUE /\ pc \in {"pool", "insert", "returned"}

\* the calls of the writer made by the current run
RunWrites == SubSeq(writes, Len(writes) - (next_insert - 1) + 1, Len(writes))

\* C7: in a fresh run each chunk is started once and read once, the writer
\* is called with the results in the order they arrived, each call appends
\* the rows of that result, and when the loop is over every result has
\* been written once and the count is the number of rows appended
C7_OneWritePerChunk ==
  InFreshRun =>
    /\ \A c \in DOMAIN task : task[c].starts = (IF task[c].state = "queued" THEN 0 ELSE 1)
    /\ Len(arrival) = Len(batches_to_insert)
    /\ \A i, j \in DOMAIN arrival : arrival[i] = arrival[j] => i = j
    /\ RunWrites = SubSeq(batches_to_insert, 1, next_insert - 1)
    /\ sentences \in {Flatten(writes), <<PriorRow>> \o Flatten(writes)}
    /\ inserted_sentences = Len(Flatten(RunWrites))
    /\ (pc = "returned" \/ (pc = "insert" /\ next_insert > Len(batches_to_insert))) =>
         /\ Range(arrival) = DOMAIN arguments
         /\ RunWrites = batches_to_insert

\* C7 witness: a fresh run has returned after writing the result of the
\* second chunk before that of the first
C7_Witness ==
  /\ first_launch = TRUE /\ pc = "returned"
  /\ arrival = <<2, 1>>
  /\ Len(writes) = 2 /\ writes[1] # <<>> /\ writes[2] # <<>>
  /\ inserted_sentences = Len(writes[1]) + Len(writes[2])

\* C8: nothing is written while the pool is at work or after the run has
\* raised, and every write finds every task done and every result read
C8_WriteAfterPool ==
  /\ (pc \in {"pool", "raised"}) => (writes = <<>> /\ sentences \in {<<>>, <<PriorRow>>})
  /\ writes # <<>> =>
       /\ \A c \in DOMAIN task : task[c].state = "done"
       /\ outqueue = <<>>
       /\ Len(batches_to_insert) = Len(arguments)

\* C8 witness: a run has raised a worker's exception after reading the
\* result of another chunk, and has written nothing
C8_Witness ==
  /\ pc = "raised" /\ first_launch = TRUE
  /\ err \in {"TypeError", "OperationalError"}
  /\ batches_to_insert # <<>> /\ batches_to_insert[1] # <<>>
  /\ writes = <<>>

\* C9: the pairs of a title, of an abstract and of a body of at most 20
\* pairs are carried forward unchanged, and the rows follow their order
C9_OrderKept ==
  (call_ret # None /\ (call_args[1] # "body" \/ Len(call_ret[1].pairs) <= 20)) =>
    LET r == call_ret[1]
        kept == SelectSeq(r.pairs, LAMBDA pr : pr[1] # <<>>)
    IN /\ r.carried = r.pairs
       /\ [i \in DOMAIN r.rows |-> <<r.rows[i][4], r.rows[i][3]>>]
            = [i \in DOMAIN kept |-> <<JsonDumps(kept[i][1]), kept[i][2]>>]

\* C10: a fresh run whose load succeeds and whose workers do not fail does
\* not end by raising (it goes on to its summary), whatever the number of
\* articles
C10_FreshRunTerminates ==
  (pc = "raised" /\ first_launch = TRUE /\ db_exists) => err \in {"TypeError", "OperationalError"}

====
